---- MODULE Spec2Model ----
(***************************************************************************)
(* A model of src/main.py: main() and DogImageDownloader.                  *)
(*                                                                         *)
(* Strings are sequences of tokens; a token is a run of characters that    *)
(* holds none of the separators the code looks at ("/", "?", "#", ";",     *)
(* whitespace), and each separator is a token of its own.  Concatenation   *)
(* (an f-string) is \o.  Every HTTP call is one step whose response is     *)
(* chosen by the environment; the local files are taken to be writable.    *)
(***************************************************************************)
EXTENDS Integers, Sequences, FiniteSets, TLC

\* The largest number of sub-breeds a listing returns in the model.
MaxSub == 2
\* The poll counter of one upload saturates here.
MaxPolls == 2

VARIABLES
    env_token,          \* os.getenv("YADISK_OAUTH_TOKEN"), fixed before the program starts
    stdin_line,         \* the line input() will return
    pc,                 \* the position of the program
    breed,              \* main's breed / self.breed
    constructed,        \* a DogImageDownloader has been constructed
    results,            \* self.results
    sub_breeds,         \* run(): sub_breeds
    breeds_to_process,  \* run(): breeds_to_process
    idx,                \* items the for loop has taken from breeds_to_process
    cur,                \* run(): breed_path, image_url, filename, remote_filename, remote_path
    response,           \* the response a method is looking at
    href,               \* _upload_file_by_url: operation_href
    op_data,            \* _upload_file_by_url: op_data
    npolls,             \* poll requests issued for the current upload (saturating)
    attempted,          \* breed paths whose random image was requested, in order
    errors,             \* what logger.error recorded in the except clause
    issued,             \* kinds of HTTP requests issued so far
    file,               \* the output file
    exc                 \* the exception that left main()

vars == <<env_token, stdin_line, pc, breed, constructed, results, sub_breeds,
          breeds_to_process, idx, cur, response, href, op_data, npolls,
          attempted, errors, issued, file, exc>>

---------------------------------------------------------------------------
\* Values

None == [some |-> FALSE, val |-> <<>>]
Some(s) == [some |-> TRUE, val |-> s]

\* Mutant: "is not None" in place of truthiness.
TruthyNotNone(v) == v.some

\* Python truthiness of an optional string: not None and not empty.
Truthy(v) == v.some /\ v.val # <<>>

Whitespace == {" ", "\t"}

TokenValues == {None, Some(<<>>), Some(<<"y0_token">>)}

StdinLines == { <<>>,
                <<" ", "\t">>,
                <<" ", "Terrier", " ">>,
                <<"spaniel">> }

SubBreedNames == {"australian", "border"}

\* Every list of at most MaxSub sub-breed names (repetitions allowed).
SubBreedLists == UNION { [1..n -> SubBreedNames] : n \in 0..MaxSub }

StatusCodes == {200, 201, 304, 404, 409, 500}

U1 == <<"https:", "/", "/", "images.dog.ceo", "/", "breeds", "/",
        "terrier-australian", "/", "n02096294_1234.jpg">>
U2 == <<"https:", "/", "/", "images.dog.ceo", "/", "breeds", "/",
        "spaniel", "/", "n1.jpg", ";", "p", "?", "w=1", "#", "f">>
U3 == <<"https:", "/", "/", "images.dog.ceo", "/", "breeds", "/">>
ImageUrls == {U1, U2, U3}

OperationUrl == <<"https:", "/", "/", "cloud-api.yandex.net", "/", "v1", "/",
                  "disk", "/", "operations", "/", "op1">>
HrefValues == {None, Some(<<>>), Some(OperationUrl)}

PollStatuses == {"success", "failed", "in-progress", "<missing>"}

NoResponse == [status |-> 0]
NoOpData == [status |-> "<none>"]
NoCur == [breed_path |-> <<>>, image_url |-> <<>>, filename |-> <<>>,
          remote_filename |-> <<>>, remote_path |-> <<>>]
NoFile == [written |-> FALSE, name |-> <<>>, content |-> <<>>]
NoExc == [type |-> "", step |-> ""]

---------------------------------------------------------------------------
\* String functions

RECURSIVE lstrip(_)
lstrip(s) == IF s # <<>> /\ Head(s) \in Whitespace THEN lstrip(Tail(s)) ELSE s

RECURSIVE rstrip(_)
rstrip(s) ==
    IF s # <<>> /\ s[Len(s)] \in Whitespace
    THEN rstrip(SubSeq(s, 1, Len(s) - 1))
    ELSE s

strip(s) == rstrip(lstrip(s))

lowerToken(t) ==
    CASE t = "Terrier" -> "terrier"
      [] OTHER -> t

lower(s) == [i \in DOMAIN s |-> lowerToken(s[i])]

replace(s, old, new) == [i \in DOMAIN s |-> IF s[i] = old THEN new ELSE s[i]]

\* s up to, not including, its first token in stops.
RECURSIVE UpTo(_, _)
UpTo(s, stops) ==
    IF s = <<>> \/ Head(s) \in stops THEN <<>>
    ELSE <<Head(s)>> \o UpTo(Tail(s), stops)

\* s from its first token in stops on.
RECURSIVE From(_, _)
From(s, stops) ==
    IF s = <<>> \/ Head(s) \in stops THEN s ELSE From(Tail(s), stops)

rfind(s, t) ==
    LET at == {i \in DOMAIN s : s[i] = t}
    IN  IF at = {} THEN 0 ELSE CHOOSE i \in at : \A j \in at : j <= i

Schemes == {"https:", "http:"}

\* urlparse(url).path
urlparse_path(url) ==
    LET noScheme == IF url # <<>> /\ Head(url) \in Schemes THEN Tail(url) ELSE url
        hasNetloc == Len(noScheme) >= 2 /\ noScheme[1] = "/" /\ noScheme[2] = "/"
        noNetloc == IF hasNetloc
                    THEN From(SubSeq(noScheme, 3, Len(noScheme)), {"/", "?", "#"})
                    ELSE noScheme
        noFragment == UpTo(noNetloc, {"#"})
        noQuery == UpTo(noFragment, {"?"})
        slash == rfind(noQuery, "/")
        lastSegment == SubSeq(noQuery, slash + 1, Len(noQuery))
    IN  SubSeq(noQuery, 1, slash) \o UpTo(lastSegment, {";"})

basename(p) == SubSeq(p, rfind(p, "/") + 1, Len(p))

_extract_filename_from_url(url) == basename(urlparse_path(url))

\* requests.Response.raise_for_status raises for 4xx and 5xx only.
RaisesForStatus(status) == 400 <= status /\ status < 600

---------------------------------------------------------------------------
Init ==
    /\ env_token \in TokenValues
    /\ stdin_line \in StdinLines
    /\ pc = "main"
    /\ breed = <<>>
    /\ constructed = FALSE
    /\ results = <<>>
    /\ sub_breeds = <<>>
    /\ breeds_to_process = <<>>
    /\ idx = 0
    /\ cur = NoCur
    /\ response = NoResponse
    /\ href = None
    /\ op_data = NoOpData
    /\ npolls = 0
    /\ attempted = <<>>
    /\ errors = <<>>
    /\ issued = {}
    /\ file = NoFile
    /\ exc = NoExc

---------------------------------------------------------------------------
\* Responses of the two services

Malformed == [json |-> FALSE, message |-> None]

\* GET /breed/{breed}/list: a JSON object with a list under "message", or without one.
ListBodies == {Malformed} \cup {[json |-> TRUE, message |-> m] : m \in SubBreedLists}

\* GET /breed/{path}/images/random: a JSON object with or without "message".
ImageBodies == {Malformed, [json |-> TRUE, message |-> None]}
               \cup {[json |-> TRUE, message |-> Some(u)] : u \in ImageUrls}

\* POST /resources/upload: a JSON object with or without "href".
UploadBodies == {[json |-> FALSE, href |-> None]}
                \cup {[json |-> TRUE, href |-> h] : h \in HrefValues}

\* GET {href}: a JSON object with or without "status".
PollBodies == {[json |-> FALSE, status |-> "<missing>"]}
              \cup {[json |-> TRUE, status |-> s] : s \in PollStatuses}

---------------------------------------------------------------------------
\* An exception leaves run() and main().
Raise(type, step) ==
    /\ pc' = "raised"
    /\ exc' = [type |-> type, step |-> step]

\* Mutant: the except clause re-raises, ending run().
HandleItemErrorAbort(type, payload) ==
    /\ errors' = Append(errors, [item |-> idx, breed_path |-> cur.breed_path,
                                 type |-> type, payload |-> payload])
    /\ results' = results
    /\ Raise(type, "item")

\* Mutant: the record is appended before the upload is known to have succeeded.
HandleItemErrorRecords(type, payload) ==
    /\ errors' = Append(errors, [item |-> idx, breed_path |-> cur.breed_path,
                                 type |-> type, payload |-> payload])
    /\ results' = Append(results, [breed_path |-> cur.breed_path,
                                   image_url |-> cur.image_url,
                                   remote_path |-> cur.remote_path])
    /\ pc' = "loop"
    /\ exc' = exc

\* The except clause of the for loop: log and go on with the next item.
HandleItemError(type, payload) ==
    /\ errors' = Append(errors, [item |-> idx, breed_path |-> cur.breed_path,
                                 type |-> type, payload |-> payload])
    /\ results' = results
    /\ pc' = "loop"
    /\ exc' = exc

\* Mutant: the bare breed is processed as well as its sub-breeds.
BreedsToProcessWithBare(b, subs) ==
    <<b>> \o [i \in DOMAIN subs |-> b \o <<"/", subs[i]>>]

\* run(): breeds_to_process
BreedsToProcess(b, subs) ==
    IF subs = <<>> THEN <<b>>
    ELSE [i \in DOMAIN subs |-> b \o <<"/", subs[i]>>]

\* Mutant: the breed path is used as it is, separators included.
RemoteNamesUnflattened(folder_name, breed_path, image_url) ==
    LET filename == _extract_filename_from_url(image_url)
        remote_filename == breed_path \o <<"_">> \o filename
    IN  [breed_path |-> breed_path,
         image_url |-> image_url,
         filename |-> filename,
         remote_filename |-> remote_filename,
         remote_path |-> folder_name \o <<"/">> \o remote_filename]

\* run(): the remote names of one item
RemoteNames(folder_name, breed_path, image_url) ==
    LET filename == _extract_filename_from_url(image_url)
        safe_breed_name == replace(breed_path, "/", "-")
        remote_filename == safe_breed_name \o <<"_">> \o filename
    IN  [breed_path |-> breed_path,
         image_url |-> image_url,
         filename |-> filename,
         remote_filename |-> remote_filename,
         remote_path |-> folder_name \o <<"/">> \o remote_filename]

---------------------------------------------------------------------------
\* main(): the token check
main_getenv ==
    /\ pc = "main"
    /\ IF ~Truthy(env_token)
       THEN Raise("EnvironmentError", "main")
       ELSE pc' = "input" /\ exc' = exc
    /\ UNCHANGED <<env_token, stdin_line, breed, constructed, results, sub_breeds,
                   breeds_to_process, idx, cur, response, href, op_data, npolls,
                   attempted, errors, issued, file>>

\* main(): the breed prompt
main_input ==
    /\ pc = "input"
    /\ breed' = lower(strip(stdin_line))
    /\ IF breed' = <<>>
       THEN Raise("ValueError", "main")
       ELSE pc' = "construct" /\ exc' = exc
    /\ UNCHANGED <<env_token, stdin_line, constructed, results, sub_breeds,
                   breeds_to_process, idx, cur, response, href, op_data, npolls,
                   attempted, errors, issued, file>>

\* DogImageDownloader(yadisk_token, breed), then downloader.run()
__init__ ==
    /\ pc = "construct"
    /\ constructed' = TRUE
    /\ results' = <<>>
    /\ pc' = "list"
    /\ UNCHANGED <<env_token, stdin_line, breed, sub_breeds, breeds_to_process,
                   idx, cur, response, href, op_data, npolls, attempted, errors,
                   issued, file, exc>>

\* run(): the sub-breed listing and the list to process
_get_sub_breeds ==
    /\ pc = "list"
    /\ issued' = issued \cup {"list"}
    /\ \/ /\ Raise("ConnectionError", "list")
          /\ UNCHANGED <<sub_breeds, breeds_to_process>>
       \/ \E status \in StatusCodes, body \in ListBodies :
            IF RaisesForStatus(status)
            THEN Raise("HTTPError", "list")
                 /\ UNCHANGED <<sub_breeds, breeds_to_process>>
            ELSE IF ~body.json
            THEN Raise("JSONDecodeError", "list")
                 /\ UNCHANGED <<sub_breeds, breeds_to_process>>
            ELSE /\ sub_breeds' = body.message
                 /\ breeds_to_process' = BreedsToProcess(breed, sub_breeds')
                 /\ pc' = "folder"
                 /\ exc' = exc
    /\ UNCHANGED <<env_token, stdin_line, breed, constructed, results, idx, cur,
                   response, href, op_data, npolls, attempted, errors, file>>

\* _create_folder_on_yadisk: the PUT request
_create_folder_put ==
    /\ pc = "folder"
    /\ issued' = issued \cup {"folder"}
    /\ \/ Raise("ConnectionError", "folder") /\ response' = response
       \/ \E status \in StatusCodes :
            /\ response' = [status |-> status]
            /\ pc' = "folder_check"
            /\ exc' = exc
    /\ UNCHANGED <<env_token, stdin_line, breed, constructed, results, sub_breeds,
                   breeds_to_process, idx, cur, href, op_data, npolls, attempted,
                   errors, file>>

\* _create_folder_on_yadisk: the status check
_create_folder_on_yadisk ==
    /\ pc = "folder_check"
    /\ IF response.status \notin {201, 409} /\ RaisesForStatus(response.status)
       THEN Raise("HTTPError", "folder")
       ELSE pc' = "loop" /\ exc' = exc
    /\ response' = NoResponse
    /\ UNCHANGED <<env_token, stdin_line, breed, constructed, results, sub_breeds,
                   breeds_to_process, idx, cur, href, op_data, npolls, attempted,
                   errors, issued, file>>

\* run(): the for loop takes the next item, or ends
run_loop ==
    /\ pc = "loop"
    /\ IF idx < Len(breeds_to_process)
       THEN /\ idx' = idx + 1
            /\ cur' = [NoCur EXCEPT !.breed_path = breeds_to_process[idx + 1]]
            /\ pc' = "image"
       ELSE /\ pc' = "write"
            /\ UNCHANGED <<idx, cur>>
    /\ UNCHANGED <<env_token, stdin_line, breed, constructed, results, sub_breeds,
                   breeds_to_process, response, href, op_data, npolls, attempted,
                   errors, issued, file, exc>>

\* run(): the random image of the item and its remote names
_get_random_image_url ==
    /\ pc = "image"
    /\ issued' = issued \cup {"image"}
    /\ attempted' = Append(attempted, cur.breed_path)
    /\ \/ HandleItemError("ConnectionError", NoOpData) /\ cur' = cur
       \/ \E status \in StatusCodes, body \in ImageBodies :
            IF RaisesForStatus(status)
            THEN HandleItemError("HTTPError", NoOpData) /\ cur' = cur
            ELSE IF ~body.json
            THEN HandleItemError("JSONDecodeError", NoOpData) /\ cur' = cur
            ELSE IF ~body.message.some
            THEN HandleItemError("KeyError", NoOpData) /\ cur' = cur
            ELSE /\ cur' = RemoteNames(breed, cur.breed_path, body.message.val)
                 /\ pc' = "upload"
                 /\ UNCHANGED <<results, errors, exc>>
    /\ UNCHANGED <<env_token, stdin_line, breed, constructed, sub_breeds,
                   breeds_to_process, idx, response, href, op_data, npolls, file>>

\* _upload_file_by_url: the POST request and the operation handle
_upload_file_by_url ==
    /\ pc = "upload"
    /\ issued' = issued \cup {"upload"}
    /\ npolls' = 0
    /\ op_data' = NoOpData
    /\ \/ HandleItemError("ConnectionError", NoOpData) /\ href' = None
       \/ \E status \in StatusCodes, body \in UploadBodies :
            IF RaisesForStatus(status)
            THEN HandleItemError("HTTPError", NoOpData) /\ href' = None
            ELSE IF ~body.json
            THEN HandleItemError("JSONDecodeError", NoOpData) /\ href' = None
            ELSE /\ href' = body.href
                 /\ pc' = IF Truthy(body.href) THEN "poll" ELSE "append"
                 /\ UNCHANGED <<results, errors, exc>>
    /\ UNCHANGED <<env_token, stdin_line, breed, constructed, sub_breeds,
                   breeds_to_process, idx, cur, response, attempted, file>>

\* _upload_file_by_url: one poll of the operation
poll_operation ==
    /\ pc = "poll"
    /\ issued' = issued \cup {"poll"}
    /\ npolls' = IF npolls < MaxPolls THEN npolls + 1 ELSE npolls
    /\ \/ HandleItemError("ConnectionError", NoOpData) /\ op_data' = op_data
       \/ \E body \in PollBodies :
            IF ~body.json
            THEN HandleItemError("JSONDecodeError", NoOpData) /\ op_data' = op_data
            ELSE /\ op_data' = [status |-> body.status]
                 /\ pc' = "check"
                 /\ UNCHANGED <<results, errors, exc>>
    /\ UNCHANGED <<env_token, stdin_line, breed, constructed, sub_breeds,
                   breeds_to_process, idx, cur, response, href, attempted, file>>

\* Mutant: the RuntimeError of a failed operation is not caught by the loop.
check_status_uncaught ==
    /\ pc = "check"
    /\ IF op_data.status = "success"
       THEN pc' = "append" /\ UNCHANGED <<results, errors, exc>>
       ELSE IF op_data.status = "failed"
       THEN Raise("RuntimeError", "poll") /\ UNCHANGED <<results, errors>>
       ELSE pc' = "poll" /\ UNCHANGED <<results, errors, exc>>
    /\ UNCHANGED <<env_token, stdin_line, breed, constructed, sub_breeds,
                   breeds_to_process, idx, cur, response, href, op_data, npolls,
                   attempted, issued, file>>

\* Mutant: every status but "failed" ends the poll loop.
check_status_not_failed ==
    /\ pc = "check"
    /\ IF op_data.status = "failed"
       THEN HandleItemError("RuntimeError", op_data)
       ELSE pc' = "append" /\ UNCHANGED <<results, errors, exc>>
    /\ UNCHANGED <<env_token, stdin_line, breed, constructed, sub_breeds,
                   breeds_to_process, idx, cur, response, href, op_data, npolls,
                   attempted, issued, file>>

\* Mutant: the poll loop gives up after MaxPolls polls.
check_status_max_attempts ==
    /\ pc = "check"
    /\ IF op_data.status = "success"
       THEN pc' = "append" /\ UNCHANGED <<results, errors, exc>>
       ELSE IF op_data.status = "failed"
       THEN HandleItemError("RuntimeError", op_data)
       ELSE IF npolls >= MaxPolls
       THEN HandleItemError("TimeoutError", op_data)
       ELSE pc' = "poll" /\ UNCHANGED <<results, errors, exc>>
    /\ UNCHANGED <<env_token, stdin_line, breed, constructed, sub_breeds,
                   breeds_to_process, idx, cur, response, href, op_data, npolls,
                   attempted, issued, file>>

\* _upload_file_by_url: the status of the poll
check_status ==
    /\ pc = "check"
    /\ IF op_data.status = "success"
       THEN pc' = "append" /\ UNCHANGED <<results, errors, exc>>
       ELSE IF op_data.status = "failed"
       THEN HandleItemError("RuntimeError", op_data)
       ELSE pc' = "poll" /\ UNCHANGED <<results, errors, exc>>
    /\ UNCHANGED <<env_token, stdin_line, breed, constructed, sub_breeds,
                   breeds_to_process, idx, cur, response, href, op_data, npolls,
                   attempted, issued, file>>

\* Mutant: the record is inserted at the front of the list.
append_result_front ==
    /\ pc = "append"
    /\ results' = <<[breed_path |-> cur.breed_path,
                     image_url |-> cur.image_url,
                     remote_path |-> cur.remote_path]>> \o results
    /\ pc' = "loop"
    /\ UNCHANGED <<env_token, stdin_line, breed, constructed, sub_breeds,
                   breeds_to_process, idx, cur, response, href, op_data, npolls,
                   attempted, errors, issued, file, exc>>

\* run(): the record of an uploaded item
append_result ==
    /\ pc = "append"
    /\ results' = Append(results, [breed_path |-> cur.breed_path,
                                   image_url |-> cur.image_url,
                                   remote_path |-> cur.remote_path])
    /\ pc' = "loop"
    /\ UNCHANGED <<env_token, stdin_line, breed, constructed, sub_breeds,
                   breeds_to_process, idx, cur, response, href, op_data, npolls,
                   attempted, errors, issued, file, exc>>

\* run(): the output file
write_results ==
    /\ pc = "write"
    /\ file' = [written |-> TRUE,
                name |-> breed \o <<"_results.json">>,
                content |-> results]
    /\ pc' = "done"
    /\ UNCHANGED <<env_token, stdin_line, breed, constructed, results, sub_breeds,
                   breeds_to_process, idx, cur, response, href, op_data, npolls,
                   attempted, errors, issued, exc>>

Next ==
    \/ main_getenv
    \/ main_input
    \/ __init__
    \/ _get_sub_breeds
    \/ _create_folder_put
    \/ _create_folder_on_yadisk
    \/ run_loop
    \/ _get_random_image_url
    \/ _upload_file_by_url
    \/ poll_operation
    \/ check_status
    \/ append_result
    \/ write_results

Spec == Init /\ [][Next]_vars

\* The interpreter keeps executing the program, and every HTTP call returns.
LiveSpec == Spec /\ WF_vars(Next)

---------------------------------------------------------------------------
\* Definitions the properties share

Range(f) == {f[i] : i \in DOMAIN f}

IsPrefix(s, t) == Len(s) <= Len(t) /\ SubSeq(t, 1, Len(s)) = s

PollPcs == {"poll", "check"}
ItemPcs == {"image", "upload", "poll", "check", "append"}

\* run() has been entered and has ended, by returning or by raising.
RunEnded == constructed /\ pc \in {"done", "raised"}

\* Items the loop has finished with.
Completed == IF pc \in ItemPcs THEN idx - 1 ELSE idx

\* Item n raised during its processing.
ItemRaised(n) == \E e \in Range(errors) : e.item = n

\* The breed paths of the first n items that did not raise, in order.
RECURSIVE OkPaths(_)
OkPaths(n) ==
    IF n = 0 THEN <<>>
    ELSE OkPaths(n - 1) \o (IF ItemRaised(n) THEN <<>> ELSE <<attempted[n]>>)

\* A breed path with every "/" turned into "-", written out token by token.
RECURSIVE Hyphenated(_)
Hyphenated(s) ==
    IF s = <<>> THEN <<>>
    ELSE <<IF Head(s) = "/" THEN "-" ELSE Head(s)>> \o Hyphenated(Tail(s))

\* The basename of the path of each image URL of the model, written out.
ExpectedBasename(url) ==
    CASE url = U1 -> <<"n02096294_1234.jpg">>
      [] url = U2 -> <<"n1.jpg">>
      [] url = U3 -> <<>>

---------------------------------------------------------------------------
\* C1, as stated: whatever the HTTP calls answer (the listing and the folder
\* creation included), a run() that has ended has written the output file.
C1_AlwaysWritesFile == RunEnded => file.written

\* C1, amended: no failure of a per-item HTTP call (image lookup, upload
\* request, operation poll) ends run(): a run() that finishes its loop has
\* attempted every item and has written <breed>_results.json holding the
\* accumulated records; an exception leaves run() only from the sub-breed
\* listing or the folder creation, before any item is attempted, and then no
\* file is written.
C1_PerItemFailuresNeverAbort ==
    /\ pc = "done" =>
          /\ attempted = breeds_to_process
          /\ file = [written |-> TRUE,
                     name |-> breed \o <<"_results.json">>,
                     content |-> results]
    /\ (constructed /\ pc = "raised") =>
          /\ exc.step \in {"list", "folder"}
          /\ attempted = <<>>
          /\ errors = <<>>
          /\ ~file.written
    /\ pc # "done" => ~file.written

\* Every item of a two-item run failed on an HTTP call, and the file was written.
C1_Witness ==
    /\ pc = "done"
    /\ Len(breeds_to_process) = 2
    /\ Len(errors) = 2
    /\ errors[1].type = "HTTPError"
    /\ errors[2].type = "ConnectionError"
    /\ file.written
    /\ file.content = <<>>

\* C2: a poll answering "failed" skips that item only: no record is appended,
\* the records already there stay, the loop goes on with the next item, and
\* run() ends having attempted every item and written the file.
C2_FailedPollSkipsOneItem ==
    /\ [][(pc = "check" /\ op_data.status = "failed") =>
            /\ pc' = "loop"
            /\ results' = results
            /\ idx' = idx
            /\ breeds_to_process' = breeds_to_process
            /\ errors' = Append(errors, [item |-> idx, breed_path |-> cur.breed_path,
                                         type |-> "RuntimeError", payload |-> op_data])]_vars
    /\ [](\A e \in Range(errors) :
            e.type = "RuntimeError" =>
              /\ pc # "raised"
              /\ (pc = "done" =>
                    /\ attempted = breeds_to_process
                    /\ file.written
                    /\ file.content = results
                    /\ Len(results) = Len(breeds_to_process) - Len(errors)))

\* The first item's operation failed, the second item was uploaded and recorded.
C2_Witness ==
    /\ pc = "done"
    /\ Len(breeds_to_process) = 2
    /\ Len(errors) = 1
    /\ errors[1].type = "RuntimeError"
    /\ errors[1].item = 1
    /\ Len(file.content) = 1
    /\ file.content[1].breed_path = breeds_to_process[2]

\* C3: folder creation returns normally exactly when the PUT response status
\* is 201 or 409, and raises for every other status.
C3_FolderSuccessIff201Or409 ==
    [][pc = "folder_check" =>
         (pc' = "loop" <=> response.status \in {201, 409})]_vars

\* C4: with an operation handle, the upload returns normally only after a
\* poll answered "success", raises a RuntimeError carrying the poll payload
\* as soon as a poll answers "failed", and polls again after any other
\* status; without a handle it returns without polling.
C4_PollProtocol ==
    /\ [](pc = "append" =>
            IF Truthy(href)
            THEN op_data.status = "success" /\ npolls >= 1
            ELSE op_data = NoOpData /\ npolls = 0)
    /\ [][pc = "check" =>
            /\ op_data.status = "success" <=> pc' = "append"
            /\ op_data.status = "failed" <=>
                  /\ pc' = "loop"
                  /\ errors' = Append(errors,
                        [item |-> idx, breed_path |-> cur.breed_path,
                         type |-> "RuntimeError", payload |-> op_data])
            /\ op_data.status \notin {"success", "failed"} <=> pc' = "poll"]_vars
    /\ [][(pc = "upload" /\ pc' \in {"poll", "append"}) =>
            (pc' = "poll" <=> Truthy(href'))]_vars
    /\ [][(pc = "poll" /\ pc' = "check") => Truthy(href)]_vars

\* The upload returned normally after a poll that was not final and one that was.
C4_Witness ==
    /\ pc = "append"
    /\ Truthy(href)
    /\ npolls >= 2
    /\ op_data.status = "success"

\* C5: with N >= 1 sub-breeds listed, the file written when run() completes
\* holds at most N records, and fewer than N when an item raised.
C5_AtMostNRecords ==
    (pc = "done" /\ Len(sub_breeds) >= 1) =>
        /\ Len(file.content) <= Len(sub_breeds)
        /\ (errors # <<>> => Len(file.content) < Len(sub_breeds))

\* Two sub-breeds, one of which raised: one record in the file.
C5_Witness ==
    /\ pc = "done"
    /\ Len(sub_breeds) = 2
    /\ Len(errors) = 1
    /\ Len(file.content) = 1

\* C6: with an empty listing exactly one item is attempted, the bare breed;
\* with a non-empty listing the items attempted are "<breed>/<sub>" for each
\* listed sub-breed, in listing order, and the bare breed is not among them.
C6_ItemsAttempted ==
    LET expected == IF sub_breeds = <<>> THEN <<breed>>
                    ELSE [i \in 1..Len(sub_breeds) |-> breed \o <<"/">> \o <<sub_breeds[i]>>]
    IN  /\ pc \in ItemPcs \cup {"loop", "write", "done"} => IsPrefix(attempted, expected)
        /\ pc \in {"write", "done"} => attempted = expected
        /\ sub_breeds # <<>> => \A i \in DOMAIN attempted : attempted[i] # breed
        /\ pc \in {"main", "input", "construct", "list", "folder", "folder_check", "raised"}
              => attempted = <<>>

\* A breed without sub-breeds: the bare breed was the one item attempted.
C6_Witness ==
    /\ pc = "done"
    /\ sub_breeds = <<>>
    /\ attempted = <<breed>>
    /\ Len(results) = 1

\* C7: the remote file name is the breed path with every "/" replaced by "-",
\* then "_", then the basename of the image URL's path; the remote path is
\* "<breed>/<remote file name>".  terrier/australian with an image URL ending
\* in n02096294_1234.jpg gives terrier-australian_n02096294_1234.jpg.
C7_RemoteNames ==
    /\ pc \in {"upload", "poll", "check", "append"} =>
          /\ cur.remote_filename =
                Hyphenated(cur.breed_path) \o <<"_">> \o ExpectedBasename(cur.image_url)
          /\ cur.remote_path = breed \o <<"/">> \o cur.remote_filename
          /\ (cur.breed_path = <<"terrier", "/", "australian">> /\ cur.image_url = U1) =>
                cur.remote_filename =
                    <<"terrier", "-", "australian", "_", "n02096294_1234.jpg">>
    /\ \A r \in Range(results) :
          r.remote_path = breed \o <<"/">> \o Hyphenated(r.breed_path) \o <<"_">>
                          \o ExpectedBasename(r.image_url)

\* The record of terrier/australian with the image n02096294_1234.jpg.
C7_Witness ==
    \E r \in Range(results) :
        /\ r.breed_path = <<"terrier", "/", "australian">>
        /\ r.image_url = U1
        /\ r.remote_path =
              <<"terrier", "/", "terrier", "-", "australian", "_", "n02096294_1234.jpg">>

\* C8: records are appended in processing order and never changed or removed:
\* the results list is always one record for each finished item that did not
\* raise, in order, none for an item that raised, and the file written at the
\* end holds that list.
C8_RecordsInProcessingOrder ==
    /\ [][IsPrefix(results, results')]_vars
    /\ [](constructed /\ pc \notin {"list", "folder", "folder_check", "raised"} =>
            /\ Len(attempted) >= Completed
            /\ [i \in 1..Len(results) |-> results[i].breed_path] = OkPaths(Completed)
            /\ Len(results) + Len(errors) = Completed)
    /\ [](pc = "done" => file.content = results)

\* Two different items, both recorded, in the order they were listed.
C8_Witness ==
    /\ pc = "done"
    /\ Len(file.content) = 2
    /\ file.content[1].breed_path = breed \o <<"/", "border">>
    /\ file.content[2].breed_path = breed \o <<"/", "australian">>

\* C9: with the token missing or empty, or the breed empty once whitespace is
\* stripped, main() raises before a downloader is constructed, before any
\* HTTP request and without writing a file.
C9_SetupErrorsAreFatal ==
    LET badToken == ~env_token.some \/ env_token.val = <<>>
        badBreed == \A i \in DOMAIN stdin_line : stdin_line[i] \in Whitespace
    IN  /\ badToken => /\ pc \in {"main", "raised"}
                       /\ (pc = "raised" => exc = [type |-> "EnvironmentError", step |-> "main"])
        /\ (~badToken /\ badBreed) =>
                       /\ pc \in {"main", "input", "raised"}
                       /\ (pc = "raised" => exc = [type |-> "ValueError", step |-> "main"])
        /\ (badToken \/ badBreed) =>
                       /\ ~constructed
                       /\ issued = {}
                       /\ ~file.written
        /\ (pc = "raised" /\ exc.step = "main") => (badToken \/ badBreed)

\* A breed of whitespace only: ValueError, nothing constructed, requested or written.
C9_Witness ==
    /\ pc = "raised"
    /\ exc.type = "ValueError"
    /\ stdin_line = <<" ", "\t">>
    /\ ~constructed
    /\ issued = {}

\* C10, as stated (its second half): a poll loop is left only once the handle
\* has reported "success" or "failed".
C10_LoopLeftOnlyOnFinalStatus ==
    [][(pc \in PollPcs /\ pc' \notin PollPcs) =>
          op_data.status \in {"success", "failed"}]_vars

\* C10, amended: if no poll loop goes on for ever, run() eventually ends, with
\* the file written or with an exception of the listing or the folder
\* creation; a poll loop is left only on "success", on "failed" or because
\* the poll request itself raised (which skips the item), and while a handle
\* answers with any other status the loop polls again: no later item is
\* attempted and no file is written.
C10_Termination ==
    /\ (<>[](pc \in PollPcs)) \/ <>(pc \in {"done", "raised"})
    /\ [](pc = "done" => file.written)
    /\ []((constructed /\ pc = "raised") => exc.step \in {"list", "folder"})
    /\ [][(pc \in PollPcs /\ pc' \notin PollPcs) =>
            \/ pc = "check" /\ op_data.status \in {"success", "failed"}
            \/ /\ pc = "poll"
               /\ pc' = "loop"
               /\ Len(errors') = Len(errors) + 1
               /\ errors'[Len(errors')].type \in {"ConnectionError", "JSONDecodeError"}]_vars
    /\ [][(pc = "check" /\ op_data.status \notin {"success", "failed"}) =>
            /\ pc' = "poll"
            /\ UNCHANGED <<idx, attempted, results, file>>]_vars

\* A handle that has answered without a final status MaxPolls times: still polling.
C10_Witness ==
    /\ pc = "check"
    /\ npolls = MaxPolls
    /\ op_data.status = "in-progress"
    /\ idx < Len(breeds_to_process)
    /\ ~file.written

====
